---- MODULE Spec2Model ----
(***************************************************************************)
(* TireIndustryMonitorV8 (src/tire_monitor.py): one run of the monitor.    *)
(*                                                                         *)
(* Numbers.  The program computes in floating point; the model computes in *)
(* fixed point.  Ticker prices are whole units.  The rubber price and the  *)
(* rubber series are held in thousandths (185.0 is 185000).  A percent     *)
(* change (pct_change), and every column derived from it, is held in units *)
(* of 1/10000 (a change of +100% is 10000).  A missing value (NaN) is the  *)
(* empty tuple and a present value v is the one-tuple <<v>>, so that a     *)
(* column is a sequence of such cells.                                     *)
(***************************************************************************)
EXTENDS Integers, Sequences, FiniteSets, TLC

\* ------------------------------------------------------------------ bounds
\* Longest table in which the leader column (Bridgestone) is unconstrained.
MaxRows == 6
\* Longest table in which one of the other ticker columns varies, and the
\* most present cells that column may then hold.
MaxSideRows == 5
MaxSideObs == 2
\* Longest table in which the leader and both market cost factors are
\* unconstrained at once.
MaxJointRows == 1
\* Largest magnitude of a spread or a slope handed to the classifier alone.
MaxMagnitude == 1

\* --------------------------------------------------------------- constants
\* scrape_rubber_price's fallback, in thousandths (185.0) and percent (0.0).
FALLBACK_PRICE == 185000
FALLBACK_CHANGE == 0
\* The window of Spread_Slope: diff(5).
SLOPE_PERIODS == 5
\* The row analyze_strategy takes as the earlier leader price: iloc[-5].
TREND_ILOC == 5

NaN == <<>>
Some(v) == <<v>>
Val(x) == x[1]

Tickers == {"Bridgestone", "Goodyear", "Cheng_Shin", "Kenda", "Oil_Brent", "USD_TWD"}
Instruments == Tickers \cup {"Rubber_TSR20"}
\* The columns run's get_fmt resolves through get_real_latest_data.
ReportCols == {"Bridgestone", "Goodyear", "Oil_Brent", "Cheng_Shin", "Kenda"}

\* The date index of a fetched table: its i-th row is Calendar[i].
Calendar ==
    << [y |-> 2025, m |-> 12, d |-> 26], [y |-> 2025, m |-> 12, d |-> 29],
       [y |-> 2025, m |-> 12, d |-> 30], [y |-> 2025, m |-> 12, d |-> 31],
       [y |-> 2026, m |-> 1, d |-> 2],   [y |-> 2026, m |-> 1, d |-> 5],
       [y |-> 2026, m |-> 1, d |-> 6],   [y |-> 2026, m |-> 1, d |-> 7],
       [y |-> 2026, m |-> 1, d |-> 8],   [y |-> 2026, m |-> 1, d |-> 9] >>

\* strftime('%m/%d'): the month and the day, the year dropped.
strftime_md(date) == <<date.m, date.d>>

\* --------------------------------------------------------- series algebra
\* Series.ffill(): a missing cell takes the last present value before it; a
\* cell with no present value before it stays missing.
ffill(s) ==
    LET f[i \in 0..Len(s)] ==
            IF i = 0 THEN NaN ELSE IF s[i] # NaN THEN s[i] ELSE f[i - 1]
    IN  [i \in 1..Len(s) |-> f[i]]

\* Series.pct_change(): (v[t] - v[t-1]) / v[t-1]; missing on the first row
\* and wherever either value is missing.
pct_change(s) ==
    [i \in 1..Len(s) |->
        IF i = 1 \/ s[i] = NaN \/ s[i - 1] = NaN
        THEN NaN
        ELSE Some(((Val(s[i]) - Val(s[i - 1])) * 10000) \div Val(s[i - 1]))]

\* Series.fillna(v): the result has no missing cell, and is kept as numbers.
fillna(s, v) == [i \in 1..Len(s) |-> IF s[i] = NaN THEN v ELSE Val(s[i])]

\* Series.cumsum() of a series of numbers.
cumsum(s) ==
    LET c[i \in 0..Len(s)] == IF i = 0 THEN 0 ELSE c[i - 1] + s[i]
    IN  [i \in 1..Len(s) |-> c[i]]

\* Series.diff(periods) of a series of numbers: missing on the first
\* `periods` rows.
diff(s, periods) ==
    [i \in 1..Len(s) |-> IF i > periods THEN Some(s[i] - s[i - periods]) ELSE NaN]

\* Series.dropna(): the present cells, each with its row, in row order.
dropna(s) ==
    LET d[i \in 0..Len(s)] ==
            IF i = 0 THEN << >>
            ELSE IF s[i] = NaN THEN d[i - 1]
            ELSE Append(d[i - 1], [row |-> i, value |-> Val(s[i])])
    IN  d[Len(s)]

NRows(df) == Len(df["Bridgestone"])

\* ------------------------------------------------------ commodity scrape
\* What the commodity page can answer.  `net` is whether requests.get
\* returned at all (an exception or the 15 s timeout otherwise); a tag is
\* absent (NaN), holds a text float() parses (<<"num", v>>) or holds a text
\* float() rejects (<<"bad">>).
NumText(v) == <<"num", v>>
BadText == <<"bad">>
Responses ==
    [net : {"ok", "timeout"},
     status : {200, 500},
     price_tag : {NaN, NumText(190000), BadText},
     change_tag : {NaN, NumText(1), BadText}]

\* The step of scrape_rubber_price's try block that raises on `resp`, or
\* "none" when the block reaches its return.
scrape_fault_of(resp) ==
    IF resp.net # "ok" THEN "network"
    ELSE IF resp.status # 200 THEN "http"
    ELSE IF resp.price_tag = NaN THEN "dom"
    ELSE IF resp.price_tag = BadText THEN "parse"
    ELSE IF resp.change_tag = BadText THEN "parse"
    ELSE "none"

\* An except clause that names only the request's own errors.
scrape_catches_request_errors(fault) == fault = "network"

\* Whether scrape_rubber_price's except clause catches a raise of the try
\* block: it is a bare `except:`, which catches every one.
scrape_catches(fault) == TRUE

\* What the try block returns when nothing in it raises: the parsed price
\* and the parsed change, 0.0 when the page has no change tag.
scrape_parsed(resp) ==
    <<resp.price_tag[2], IF resp.change_tag = NaN THEN 0 ELSE resp.change_tag[2]>>

\* `return 185.0, 0.0`
scrape_fallback == <<FALLBACK_PRICE, FALLBACK_CHANGE>>

\* ---------------------------------------------------------- market data
Cells == {NaN, Some(1), Some(2)}
Columns(n) == [1..n -> Cells]
ConstCol(n) == [i \in 1..n |-> Some(1)]

\* A table of n rows whose columns are those of `free` where it gives one
\* and a constant price elsewhere.
Table(n, free) ==
    [c \in Tickers |-> IF c \in DOMAIN free THEN free[c] ELSE ConstCol(n)]

\* The columns of n rows with at most k present cells.
SparseColumns(n, k) ==
    {s \in Columns(n) : Cardinality({i \in 1..n : s[i] # NaN}) <= k}

\* The tables fetch_market_data may return: any pattern of prices and gaps
\* in the leader column; any placement of a few prices in one other column;
\* any pattern in the three columns the spread is computed from, for short
\* tables.  A table of no rows is the download that found nothing.
LeaderTables ==
    UNION {{Table(n, [c \in {"Bridgestone"} |-> s]) : s \in Columns(n)} :
           n \in 0..MaxRows}
SideTables ==
    UNION {UNION {{Table(n, [c \in {t} |-> s]) : s \in SparseColumns(n, MaxSideObs)} :
                  t \in Tickers \ {"Bridgestone"}} :
           n \in 0..MaxSideRows}
JointTables ==
    UNION {{Table(n, [c \in {"Bridgestone", "Oil_Brent", "USD_TWD"} |->
                        CASE c = "Bridgestone" -> b
                          [] c = "Oil_Brent" -> o
                          [] OTHER -> f]) :
            b \in Columns(n), o \in Columns(n), f \in Columns(n)} :
           n \in 0..MaxJointRows}
MarketTables == LeaderTables \cup SideTables \cup JointTables

\* np.random.seed(42) followed by np.random.normal(0, 1.5): the draws, in
\* thousandths.
NOISE == <<745, -207, 972, 2285, -351, -351, 2369, 1151, -704, 814>>

\* generate_rubber_series: a walk back from the current price, reversed, so
\* that the last row is the current price.
generate_rubber_series(n, current_price) ==
    LET prices[k \in 0..(n - 1)] ==
            IF k = 0 THEN current_price ELSE prices[k - 1] - NOISE[k]
    IN  [i \in 1..n |-> Some(prices[n - i])]

\* pd.concat([df_raw, rubber_series], axis=1)
concat(df, series) ==
    [c \in Instruments |-> IF c = "Rubber_TSR20" THEN series ELSE df[c]]

\* ---------------------------------------------------- calculate_metrics
Derived == {"Cost_Index_Change", "Composite_Cost_Cum", "Bridgestone_Cum",
            "Profit_Spread", "Spread_Slope"}

\* df.copy().ffill()
ffill_table(df) == [c \in DOMAIN df |-> ffill(df[c])]

\* df_chart.pct_change().fillna(0)
pct_table(filled) == [c \in DOMAIN filled |-> fillna(pct_change(filled[c]), 0)]

\* The weighted cost change of one row: 0.4, 0.3 and 0.3 of the rubber, oil
\* and exchange-rate changes.
cost_index_change(df_pct) ==
    [i \in 1..Len(df_pct["Rubber_TSR20"]) |->
        (df_pct["Rubber_TSR20"][i] * 4 + df_pct["Oil_Brent"][i] * 3
            + df_pct["USD_TWD"][i] * 3) \div 10]

\* Series.cumprod() of 1 + s, a series of changes: the compounded level.
cumprod1p(s) ==
    LET c[i \in 0..Len(s)] ==
            IF i = 0 THEN 10000 ELSE (c[i - 1] * (10000 + s[i])) \div 10000
    IN  [i \in 1..Len(s) |-> c[i]]

\* The leader's return compounded instead of summed.
bridgestone_cum_compounded(df_pct) == cumprod1p(df_pct["Bridgestone"])

\* The leader's cumulative return.
bridgestone_cum(df_pct) == cumsum(df_pct["Bridgestone"])

profit_spread(leader_cum, cost_cum) ==
    [i \in 1..Len(leader_cum) |-> leader_cum[i] - cost_cum[i]]

\* The slope taken over the rows of the trend test, one fewer.
spread_slope_over_trend_rows(spread) == diff(spread, TREND_ILOC - 1)

spread_slope(spread) == diff(spread, SLOPE_PERIODS)

\* The filled table with its five derived columns.
chart_table(df) ==
    LET filled == ffill_table(df)
        df_pct == pct_table(filled)
        cost == cost_index_change(df_pct)
        cost_cum == cumsum(cost)
        leader_cum == bridgestone_cum(df_pct)
        spread == profit_spread(leader_cum, cost_cum)
    IN  [c \in Instruments \cup Derived |->
            CASE c = "Cost_Index_Change" -> cost
              [] c = "Composite_Cost_Cum" -> cost_cum
              [] c = "Bridgestone_Cum" -> leader_cum
              [] c = "Profit_Spread" -> spread
              [] c = "Spread_Slope" -> spread_slope(spread)
              [] OTHER -> filled[c]]

\* calculate_metrics filling the caller's table itself, without the copy.
calculate_metrics_fill_in_place(df) ==
    [df |-> ffill_table(df), df_chart |-> chart_table(df)]

\* calculate_metrics returns the table it was given, untouched, and the
\* chart table computed from a copy of it.
calculate_metrics(df) == [df |-> df, df_chart |-> chart_table(df)]

\* ----------------------------------------------------- analyze_strategy
BUY == <<"Buy", "margin expanding, leader rising", 65280>>
HOLD == <<"Hold", "margin contracting", 16776960>>
SELL == <<"Sell", "cost growth exceeds leader return", 16711680>>
NEUTRAL == <<"Neutral", "no clear direction", 12370112>>
Signals == {BUY, HOLD, SELL, NEUTRAL}

\* a > b on cells: False when either is missing.
cell_gt(a, b) == a # NaN /\ b # NaN /\ Val(a) > Val(b)

\* The row df_chart.iloc[-k] names, counted from 1; 0 or less when the
\* table is too short and iloc raises IndexError.
iloc_neg(n, k) == n - k + 1

\* latest['Bridgestone'] > df_chart.iloc[-5]['Bridgestone']
leader_trend(df_chart) ==
    LET n == Len(df_chart["Bridgestone"])
    IN  cell_gt(df_chart["Bridgestone"][n],
                df_chart["Bridgestone"][iloc_neg(n, TREND_ILOC)])

\* The chain with the leader's trend left out of its first test.
classify_without_trend(spread, slope, trend) ==
    IF spread > 0 /\ cell_gt(slope, Some(0)) THEN BUY
    ELSE IF spread > 0 /\ cell_gt(Some(0), slope) THEN HOLD
    ELSE IF spread < 0 THEN SELL
    ELSE NEUTRAL

\* The if/elif chain; a comparison with a missing slope is False.
classify(spread, slope, trend) ==
    IF spread > 0 /\ cell_gt(slope, Some(0)) /\ trend THEN BUY
    ELSE IF spread > 0 /\ cell_gt(Some(0), slope) THEN HOLD
    ELSE IF spread < 0 THEN SELL
    ELSE NEUTRAL

\* analyze_strategy: raises IndexError when iloc[-1] or iloc[-5] is out of
\* the table.
analyze_strategy(df_chart) ==
    LET n == Len(df_chart["Bridgestone"])
    IN  IF iloc_neg(n, 1) < 1 \/ iloc_neg(n, TREND_ILOC) < 1
        THEN [raised |-> TRUE, signal |-> NaN]
        ELSE [raised |-> FALSE,
              signal |-> classify(df_chart["Profit_Spread"][n],
                                  df_chart["Spread_Slope"][n],
                                  leader_trend(df_chart))]

\* ------------------------------------------------- get_real_latest_data
\* A date text is a tuple: <<month, day>>, or <<"N/A">>.
NO_DATA == [price |-> 0, pct |-> 0, date |-> <<"N/A">>]

\* The last present value of the column, its change in percent (held in
\* 1/100 of a percent) against the present value before it, and the date of
\* its row; the sentinel when the column has fewer than two present values.
get_real_latest_data(df, col_name) ==
    LET valid_series == dropna(df[col_name])
        k == Len(valid_series)
    IN  IF k < 2 THEN NO_DATA
        ELSE [price |-> valid_series[k].value,
              pct |-> ((valid_series[k].value - valid_series[k - 1].value) * 10000)
                          \div valid_series[k - 1].value,
              date |-> strftime_md(Calendar[valid_series[k].row])]

\* ------------------------------------------------------------ the run
VARIABLES
    pc,            \* where run() is
    webhook_url,   \* whether DISCORD_WEBHOOK_URL is set
    rubber,        \* <<rubber_price, rubber_chg>>, NaN before the scrape
    scrape_fault,  \* the exception scrape_rubber_price is handling, if any
    fell_back,     \* whether the scrape returned through its except clause
    fetched,       \* the table fetch_market_data returned, as it returned it
    df_raw,        \* run's df_raw
    df_chart,      \* run's df_chart, NaN before calculate_metrics
    signal,        \* <<signal, reason, color>>, NaN before analyze_strategy
    report,        \* what get_fmt resolved for each reported column
    chart_buffer,  \* whether generate_chart_buffer has returned a buffer
    notify,        \* send_discord_notify: "idle", "called", "returned"
    posts,         \* the POSTs made, in order: [kind, color, image, ok]
    raised_in,     \* the step whose exception reached run's handler
    exit_code      \* -1 while running, then the process's exit code

vars == <<pc, webhook_url, rubber, scrape_fault, fell_back, fetched, df_raw, df_chart,
          signal, report, chart_buffer, notify, posts, raised_in, exit_code>>

\* The module is imported (the environment variable is read once) and the
\* monitor is constructed.
Init ==
    /\ pc = "scrape"
    /\ webhook_url \in BOOLEAN
    /\ rubber = NaN
    /\ scrape_fault = "none"
    /\ fell_back = FALSE
    /\ fetched = NaN
    /\ df_raw = NaN
    /\ df_chart = NaN
    /\ signal = NaN
    /\ report = NaN
    /\ chart_buffer = FALSE
    /\ notify = "idle"
    /\ posts = << >>
    /\ raised_in = "none"
    /\ exit_code = -1

\* run, step 1: rubber_price, rubber_chg = self.scrape_rubber_price().
\* The try block: the page is requested and parsed.  It returns the parsed
\* pair, or raises; a raise the except clause does not catch reaches run.
ScrapeTry ==
    /\ pc = "scrape"
    /\ \E resp \in Responses :
          LET fault == scrape_fault_of(resp)
          IN  IF fault = "none"
              THEN /\ rubber' = scrape_parsed(resp)
                   /\ pc' = "fetch"
                   /\ UNCHANGED <<scrape_fault, raised_in>>
              ELSE /\ scrape_fault' = fault
                   /\ pc' = IF scrape_catches(fault) THEN "scrape_except" ELSE "except"
                   /\ raised_in' = IF scrape_catches(fault) THEN raised_in ELSE "scrape"
                   /\ UNCHANGED rubber
    /\ UNCHANGED <<webhook_url, fell_back, fetched, df_raw, df_chart, signal,
                   report, chart_buffer, notify, posts, exit_code>>

\* scrape_rubber_price's except clause: the exception is dropped and the
\* fallback pair returned.
ScrapeExcept ==
    /\ pc = "scrape_except"
    /\ rubber' = scrape_fallback
    /\ scrape_fault' = "none"
    /\ fell_back' = TRUE
    /\ pc' = "fetch"
    /\ UNCHANGED <<webhook_url, fetched, df_raw, df_chart, signal, report,
                   chart_buffer, notify, posts, raised_in, exit_code>>

\* run, step 1: df_raw = self.fetch_market_data(), the download returning.
FetchOk ==
    /\ pc = "fetch"
    /\ \E table \in MarketTables :
          /\ fetched' = table
          /\ df_raw' = table
    /\ pc' = "metrics"
    /\ UNCHANGED <<webhook_url, rubber, scrape_fault, fell_back, df_chart, signal,
                   report, chart_buffer, notify, posts, raised_in, exit_code>>

\* run, step 1: the download raising.
FetchRaise ==
    /\ pc = "fetch"
    /\ pc' = "except"
    /\ raised_in' = "fetch"
    /\ UNCHANGED <<webhook_url, rubber, scrape_fault, fell_back, fetched, df_raw, df_chart,
                   signal, report, chart_buffer, notify, posts, exit_code>>

\* run, step 2: the rubber series is generated over the table's dates and
\* joined to it, and the metrics are computed.  pd.Series raises on a table
\* of no rows (one price for an index of none).
Metrics ==
    /\ pc = "metrics"
    /\ IF NRows(df_raw) = 0
       THEN /\ pc' = "except"
            /\ raised_in' = "metrics"
            /\ UNCHANGED <<df_raw, df_chart>>
       ELSE LET rubber_series == generate_rubber_series(NRows(df_raw), rubber[1])
                m == calculate_metrics(concat(df_raw, rubber_series))
            IN  /\ df_raw' = m.df
                /\ df_chart' = m.df_chart
                /\ pc' = "analyze"
                /\ UNCHANGED raised_in
    /\ UNCHANGED <<webhook_url, rubber, scrape_fault, fell_back, fetched, signal, report,
                   chart_buffer, notify, posts, exit_code>>

\* run, step 3: signal, reason, color = self.analyze_strategy(df_chart)
Analyze ==
    /\ pc = "analyze"
    /\ LET a == analyze_strategy(df_chart)
       IN  /\ signal' = a.signal
           /\ pc' = IF a.raised THEN "except" ELSE "format"
           /\ raised_in' = IF a.raised THEN "analyze" ELSE raised_in
    /\ UNCHANGED <<webhook_url, rubber, scrape_fault, fell_back, fetched, df_raw, df_chart,
                   report, chart_buffer, notify, posts, exit_code>>

\* run, step 4: the report text; get_fmt shows the scraped pair for the
\* rubber and resolves every other column through get_real_latest_data.
Format ==
    /\ pc = "format"
    /\ report' = [c \in ReportCols \cup {"Rubber_TSR20"} |->
                    IF c = "Rubber_TSR20"
                    THEN [price |-> rubber[1], pct |-> rubber[2], date |-> << >>]
                    ELSE get_real_latest_data(df_raw, c)]
    /\ pc' = "chart"
    /\ UNCHANGED <<webhook_url, rubber, scrape_fault, fell_back, fetched, df_raw, df_chart,
                   signal, chart_buffer, notify, posts, raised_in, exit_code>>

\* run, step 5: chart_buffer = self.generate_chart_buffer(df_chart)
ChartOk ==
    /\ pc = "chart"
    /\ chart_buffer' = TRUE
    /\ pc' = "notify"
    /\ UNCHANGED <<webhook_url, rubber, scrape_fault, fell_back, fetched, df_raw, df_chart,
                   signal, report, notify, posts, raised_in, exit_code>>

\* run, step 5: the rendering raising.
ChartRaise ==
    /\ pc = "chart"
    /\ pc' = "except"
    /\ raised_in' = "chart"
    /\ UNCHANGED <<webhook_url, rubber, scrape_fault, fell_back, fetched, df_raw, df_chart,
                   signal, report, chart_buffer, notify, posts, exit_code>>

\* ------------------------------------------------ send_discord_notify
\* An exception of requests.post left to reach run's handler.
post_exception_propagates == "except"

\* The image POST made whether or not the embed POST returned.
after_embed_image_regardless(ok, image_buffer) ==
    IF image_buffer THEN "post_image" ELSE "done"

\* Where an exception of requests.post leaves run: `except Exception`
\* catches it inside send_discord_notify, which then returns normally.
after_post_exception == "done"

\* Where send_discord_notify goes after the embed POST: an exception skips
\* the rest of the try block; otherwise the image POST follows when a
\* buffer was given.
after_embed(ok, image_buffer) ==
    IF ~ok THEN after_post_exception
    ELSE IF image_buffer THEN "post_image" ELSE "done"

\* send_discord_notify with no webhook URL: it prints and returns.
NotifyUnset ==
    /\ pc = "notify"
    /\ ~webhook_url
    /\ notify' = "returned"
    /\ pc' = "done"
    /\ UNCHANGED <<webhook_url, rubber, scrape_fault, fell_back, fetched, df_raw, df_chart,
                   signal, report, chart_buffer, posts, raised_in, exit_code>>

\* requests.post(DISCORD_WEBHOOK_URL, json=data): the embed, carrying the
\* signal's color; it returns or raises.
PostEmbed ==
    /\ pc = "notify"
    /\ webhook_url
    /\ \E ok \in BOOLEAN :
          /\ posts' = Append(posts, [kind |-> "embed", color |-> signal[3], ok |-> ok])
          /\ LET next == after_embed(ok, chart_buffer)
             IN  /\ pc' = next
                 /\ notify' = IF next = "post_image" THEN "posting" ELSE "returned"
                 /\ raised_in' = IF next = "except" THEN "notify" ELSE raised_in
    /\ UNCHANGED <<webhook_url, rubber, scrape_fault, fell_back, fetched, df_raw, df_chart,
                   signal, report, chart_buffer, exit_code>>

\* image_buffer.seek(0); requests.post(DISCORD_WEBHOOK_URL, files=...)
PostImage ==
    /\ pc = "post_image"
    /\ \E ok \in BOOLEAN :
          /\ posts' = Append(posts, [kind |-> "image", color |-> 0, ok |-> ok])
          /\ LET next == IF ok THEN "done" ELSE after_post_exception
             IN  /\ pc' = next
                 /\ raised_in' = IF next = "except" THEN "notify" ELSE raised_in
    /\ notify' = "returned"
    /\ UNCHANGED <<webhook_url, rubber, scrape_fault, fell_back, fetched, df_raw, df_chart,
                   signal, report, chart_buffer, exit_code>>

\* run returns and the process ends with exit code 0.
Exit0 ==
    /\ pc = "done"
    /\ exit_code' = 0
    /\ pc' = "exited"
    /\ UNCHANGED <<webhook_url, rubber, scrape_fault, fell_back, fetched, df_raw, df_chart,
                   signal, report, chart_buffer, notify, posts, raised_in>>

\* run's `except Exception`: the traceback is printed and sys.exit(1).
Handler ==
    /\ pc = "except"
    /\ exit_code' = 1
    /\ pc' = "exited"
    /\ UNCHANGED <<webhook_url, rubber, scrape_fault, fell_back, fetched, df_raw, df_chart,
                   signal, report, chart_buffer, notify, posts, raised_in>>

Next ==
    \/ ScrapeTry
    \/ ScrapeExcept
    \/ FetchOk
    \/ FetchRaise
    \/ Metrics
    \/ Analyze
    \/ Format
    \/ ChartOk
    \/ ChartRaise
    \/ NotifyUnset
    \/ PostEmbed
    \/ PostImage
    \/ Exit0
    \/ Handler

Spec == Init /\ [][Next]_vars

\* --------------------------------------------- the classifier on its own
\* Chart tables for analyze_strategy alone: six rows whose last row holds
\* any spread, any slope (missing included) and any pair of leader prices in
\* the two rows the trend compares.
ClassifierCharts ==
    {[c \in {"Bridgestone", "Profit_Spread", "Spread_Slope"} |->
        CASE c = "Bridgestone" -> <<Some(1), early, Some(1), Some(1), Some(1), last>>
          [] c = "Profit_Spread" -> <<0, 0, 0, 0, 0, S>>
          [] OTHER -> <<NaN, NaN, NaN, NaN, NaN, K>>] :
     S \in -MaxMagnitude..MaxMagnitude,
     K \in {NaN} \cup {Some(k) : k \in -MaxMagnitude..MaxMagnitude},
     early \in Cells, last \in Cells}

InitClassifier ==
    /\ pc = "analyze"
    /\ webhook_url = FALSE
    /\ rubber = scrape_fallback
    /\ scrape_fault = "none"
    /\ fell_back = TRUE
    /\ fetched = NaN
    /\ df_raw = NaN
    /\ df_chart \in ClassifierCharts
    /\ signal = NaN
    /\ report = NaN
    /\ chart_buffer = FALSE
    /\ notify = "idle"
    /\ posts = << >>
    /\ raised_in = "none"
    /\ exit_code = -1

SpecClassifier == InitClassifier /\ [][Analyze]_vars

\* ------------------------------------------------------------- claims
\* The inputs of the classifier in a state where a chart table exists: the
\* latest Profit_Spread, the latest Spread_Slope and the leader's trend.
LatestSpread == df_chart["Profit_Spread"][NRows(df_chart)]
LatestSlope == df_chart["Spread_Slope"][NRows(df_chart)]
LeaderRising == leader_trend(df_chart)
SlopePositive == LatestSlope # NaN /\ Val(LatestSlope) > 0
SlopeNegative == LatestSlope # NaN /\ Val(LatestSlope) < 0

\* C1: analyze_strategy is total and deterministic.  Whenever it has
\* returned, its result is one of the four signals (each with its own reason
\* and colour) and is fixed by the triple (S, K, leader_rising) through the
\* top-down table: Buy iff S>0, K>0 and leader_rising; else Hold iff S>0 and
\* K<0; else Sell iff S<0; else Neutral, which for a defined K is exactly
\* S=0, or S>0 and K=0, or S>0 and K>0 without leader_rising.
C1_DecisionTable ==
    signal # NaN =>
        LET buy == LatestSpread > 0 /\ SlopePositive /\ LeaderRising
            hold == ~buy /\ LatestSpread > 0 /\ SlopeNegative
            sell == ~buy /\ ~hold /\ LatestSpread < 0
        IN  /\ signal \in Signals
            /\ (signal = BUY) <=> buy
            /\ (signal = HOLD) <=> hold
            /\ (signal = SELL) <=> sell
            /\ (signal = NEUTRAL) <=> (~buy /\ ~hold /\ ~sell)
            /\ LatestSlope # NaN =>
                 ((signal = NEUTRAL) <=>
                    \/ LatestSpread = 0
                    \/ LatestSpread > 0 /\ Val(LatestSlope) = 0
                    \/ LatestSpread > 0 /\ Val(LatestSlope) > 0 /\ ~LeaderRising)

\* C1's case: a positive spread with a positive slope, classified Neutral
\* because the leader is not rising.
C1_Witness ==
    /\ signal = NEUTRAL
    /\ LatestSpread > 0
    /\ SlopePositive
    /\ ~LeaderRising

\* analyze_strategy has been called on the chart table and has returned or
\* raised.
AnalyzeActed == df_chart # NaN /\ pc # "analyze"

\* C2: with fewer than six rows in the filled table (1 to 5), the slope of
\* the latest row is missing, and analyze_strategy returns Neutral whatever
\* the sign of the spread, and does not raise.
C2_ShortHistoryIsNeutral ==
    (AnalyzeActed /\ NRows(df_chart) \in 1..5) =>
        (signal = NEUTRAL /\ raised_in # "analyze")

\* The steps of run whose failure is a failure of data retrieval or of the
\* computation: the download, the metrics, the classification, the chart.
PipelineSteps == {"fetch", "metrics", "analyze", "chart"}

\* C3, the run's part: the scrape never raises into run; a scrape that fell
\* back left exactly (185.0, 0.0); and a run whose scrape fell back and whose
\* retrieval and computation succeeded has called send_discord_notify (which
\* POSTed if the URL is set) and has ended with exit code 0.
C3_RunCompletes ==
    /\ raised_in # "scrape"
    /\ fell_back => rubber = <<185000, 0>>
    /\ (pc = "exited" /\ fell_back /\ raised_in \notin PipelineSteps) =>
          /\ notify = "returned"
          /\ webhook_url => Len(posts) >= 1
          /\ exit_code = 0

\* C3: every failure of the commodity scrape (the request raising or timing
\* out, a status other than 200, no price element, a number that does not
\* parse) makes scrape_rubber_price return exactly (185.0, 0.0) to run
\* without raising; and if retrieval and computation then succeed, the run
\* sends the notification and does not exit non-zero.
C3_ScrapeFailureFallsBack ==
    /\ [][scrape_fault # "none" =>
            (rubber' = <<185000, 0>> /\ pc' = "fetch" /\ fell_back')]_vars
    /\ []C3_RunCompletes

\* C3's case: the scrape failed, and the run ended with exit code 0 after
\* both POSTs.
C3_Witness ==
    /\ pc = "exited"
    /\ fell_back
    /\ exit_code = 0
    /\ Len(posts) = 2

\* Some POST of the notification raised.
SomePostFailed == \E i \in 1..Len(posts) : ~posts[i].ok

\* C4: when the process has exited, its exit code is non-zero exactly when
\* the download or the computation raised; a scrape failure or a failed
\* POST alone leaves it 0; and a non-zero exit has made no POST.
C4_ExitCode ==
    pc = "exited" =>
        /\ exit_code \in {0, 1}
        /\ (exit_code # 0) <=> (raised_in \in PipelineSteps)
        /\ ((fell_back \/ SomePostFailed) /\ raised_in \notin PipelineSteps) =>
              exit_code = 0
        /\ exit_code # 0 => posts = << >>

\* C4's case: the scrape failed and a POST failed, and the exit code is 0.
C4_Witness ==
    /\ pc = "exited"
    /\ fell_back
    /\ SomePostFailed
    /\ exit_code = 0

\* The rows of column c of the table as fetched that hold a genuine
\* observation, and the latest of a set of rows.
Observed(c) == {i \in 1..Len(fetched[c]) : fetched[c][i] # NaN}
Latest(rows) == CHOOSE i \in rows : \A j \in rows : j <= i

\* What the claim expects for a column: the last observation, its change in
\* percent against the observation before it, and its date.
LastObservation(c) ==
    LET last == Latest(Observed(c))
        prev == Latest(Observed(c) \ {last})
        v == Val(fetched[c][last])
        u == Val(fetched[c][prev])
    IN  [price |-> v,
         pct |-> ((v - u) * 100 * 100) \div u,
         date |-> <<Calendar[last].m, Calendar[last].d>>]

\* C5 as claimed: for every reported column and every pattern of missing
\* entries, get_real_latest_data returns the last genuine observation (and,
\* where there is one before it, the change against it) with its date.
C5_AlwaysLastObservation ==
    report # NaN =>
        \A c \in ReportCols :
            Observed(c) # {} =>
                /\ report[c].price = Val(fetched[c][Latest(Observed(c))])
                /\ report[c].date = <<Calendar[Latest(Observed(c))].m,
                                      Calendar[Latest(Observed(c))].d>>
                /\ Cardinality(Observed(c)) >= 2 => report[c] = LastObservation(c)

\* C5, amended: the table get_real_latest_data reads in run is the fetched
\* table, which calculate_metrics has not filled; for every reported column
\* with at least two genuine observations it returns the last one, its
\* percent change against the one before it and its date, never a filled
\* value; for a column with fewer than two it returns (0.0, 0.0, "N/A").
C5_LastObservationOrNoData ==
    /\ df_chart # NaN => \A c \in Tickers : df_raw[c] = fetched[c]
    /\ report # NaN =>
          \A c \in ReportCols :
              IF Cardinality(Observed(c)) >= 2
              THEN report[c] = LastObservation(c)
              ELSE report[c] = [price |-> 0, pct |-> 0, date |-> <<"N/A">>]

\* C5's case: the leader's latest date has no observation (the filled view
\* repeats an older one there), the row before its last observation is a
\* gap, and the report holds the change across that gap.
C5_Witness ==
    /\ report # NaN
    /\ LET n == Len(fetched["Bridgestone"])
           last == Latest(Observed("Bridgestone"))
       IN  /\ Cardinality(Observed("Bridgestone")) >= 2
           /\ last < n
           /\ (last - 1) \notin Observed("Bridgestone")
           /\ report["Bridgestone"].pct # 0

\* The first date on which any series of the table holds an observation.
FirstObservedDate ==
    CHOOSE i \in 1..NRows(df_raw) :
        /\ \E c \in Instruments : df_raw[c][i] # NaN
        /\ \A j \in 1..(i - 1) : \A c \in Instruments : df_raw[c][j] = NaN

\* C6: in the filled view no instrument column has a missing value at any
\* date strictly after the first date on which any series has an
\* observation.
C6_FilledViewHasNoGaps ==
    df_chart # NaN =>
        \A c \in Instruments :
            \A i \in 1..NRows(df_chart) :
                i > FirstObservedDate => df_chart[c][i] # NaN

\* The POSTs made are the embed, or the embed and then the image.
PostsInOrder ==
    /\ Len(posts) <= 2
    /\ Len(posts) >= 1 => posts[1].kind = "embed"
    /\ Len(posts) = 2 => (posts[2].kind = "image" /\ posts[1].ok /\ chart_buffer)

\* C7: with no webhook URL send_discord_notify makes no POST and returns;
\* with one it makes the embed POST first and the image POST second, each at
\* most once, the image POST only with a buffer and after the embed POST has
\* returned; an exception of either POST does not reach the caller.
C7_DeliveryProtocol ==
    /\ ~webhook_url => posts = << >>
    /\ PostsInOrder
    /\ raised_in # "notify"
    /\ notify = "returned" =>
          /\ pc \in {"done", "exited"}
          /\ pc = "exited" => exit_code = 0
          /\ webhook_url => Len(posts) >= 1
          /\ (webhook_url /\ posts[1].ok /\ chart_buffer) => Len(posts) = 2

\* C7's case: the embed POST returned, the image POST raised, and
\* send_discord_notify returned to a run that ended normally.
C7_Witness ==
    /\ notify = "returned"
    /\ Len(posts) = 2
    /\ posts[1].ok
    /\ ~posts[2].ok
    /\ pc = "exited"

\* C8: Profit_Spread at the first date of the filled view is exactly 0,
\* whatever the prices and whichever first-row entries are missing.
C8_SpreadStartsAtZero ==
    df_chart # NaN => df_chart["Profit_Spread"][1] = 0

\* C8's case: a table whose first row lacks the leader's price and whose
\* spread has since moved away from 0.
C8_Witness ==
    /\ df_chart # NaN
    /\ pc = "analyze"
    /\ fetched["Bridgestone"][1] = NaN
    /\ NRows(df_chart) >= 2
    /\ LatestSpread # 0
    /\ df_chart["Bridgestone_Cum"][NRows(df_chart)] # 0

\* C9: the trend analyze_strategy uses is true exactly when the leader's
\* price at the latest row exceeds its price five rows earlier, the row the
\* slope is taken against.
C9_TrendOverSlopeWindow ==
    (AnalyzeActed /\ NRows(df_chart) >= 6) =>
        LET n == NRows(df_chart)
            now == df_chart["Bridgestone"][n]
            earlier == df_chart["Bridgestone"][n - 5]
        IN  LeaderRising <=> (now # NaN /\ earlier # NaN /\ Val(now) > Val(earlier))

\* C10: Spread_Slope is missing on each of the first five rows and is
\* Profit_Spread[t] - Profit_Spread[t-5] on every later row.
C10_SlopeIsFiveRowDifference ==
    df_chart # NaN =>
        \A t \in 1..NRows(df_chart) :
            IF t <= 5
            THEN df_chart["Spread_Slope"][t] = NaN
            ELSE df_chart["Spread_Slope"][t] =
                    <<df_chart["Profit_Spread"][t] - df_chart["Profit_Spread"][t - 5]>>

\* C10's case: a table of more than five rows, whose latest slope is present
\* and not 0.
C10_Witness ==
    /\ df_chart # NaN
    /\ pc = "analyze"
    /\ NRows(df_chart) > 5
    /\ LatestSlope # NaN
    /\ Val(LatestSlope) # 0
====
